---------------------------- MODULE Spec2Model ----------------------------
(***************************************************************************)
(* cargo-ab-lint (src/main.rs): lints the Cargo.toml files of a workspace  *)
(* for redundant settings on `workspace = true` dependencies and for       *)
(* unused [workspace.dependencies], and rewrites the files under --fix.    *)
(*                                                                         *)
(* A TOML text is modelled by its surface form: a sequence of lines, one   *)
(* per dependency entry, each line a record                                *)
(*     [table, name, form, items]                                          *)
(* where form is "inline"  (name = { k = v, k = v }),                      *)
(*               "dotted"  (name.workspace = true),                        *)
(*               "simple"  (name = "1.0"),                                 *)
(* and every item of an inline table records its key, its value and `suf`, *)
(* whether a space follows the value (toml_edit keeps that decor with the  *)
(* item, so the last item of `{ a = 1, b = 2 }` carries the space before   *)
(* the closing brace).  Two texts are equal iff their surface forms are.   *)
(* toml_edit's DocumentMut is format preserving, so a document is the same *)
(* sequence of lines; cargo_toml's Manifest is its semantic projection.    *)
(* The decor inside a features array is not modelled: an array is the      *)
(* sequence of its values.                                                 *)
(*                                                                         *)
(* Every workspace member has a `path+file://` package id, so              *)
(* manifest_path (main.rs:254-267) yields a path for each of them and the  *)
(* `continue` of main.rs:34-36 is not taken.  A failing read, parse or     *)
(* write is a choice of the environment at the step where it happens.      *)
(***************************************************************************)
EXTENDS Naturals, Sequences, FiniteSets

\* Bounds of the model.
MaxMembers == 2
MaxFeatures == 2

\* Dependency names, in the iteration order of cargo_toml's BTreeMap.
NameOrder == <<"bar", "foo">>
Names == {NameOrder[i] : i \in DOMAIN NameOrder}
Features == {"a", "b", "c"}

Range(s) == {s[i] : i \in DOMAIN s}

-----------------------------------------------------------------------------
(* Surface syntax of the files *)

Item(key, feats, flag, suf) ==
    [key |-> key, feats |-> feats, flag |-> flag, suf |-> suf]
WsItem(suf) == Item("workspace", <<>>, TRUE, suf)
VersionItem(suf) == Item("version", <<>>, TRUE, suf)
FeaturesItem(fs, suf) == Item("features", fs, TRUE, suf)
DfItem(key, suf) == Item(key, <<>>, FALSE, suf)

Line(table, name, form, items) ==
    [table |-> table, name |-> name, form |-> form, items |-> items]

\* As written by hand: only the last item of an inline table is followed by
\* a space.
RECURSIVE Spaced(_)
Spaced(items) ==
    IF items = <<>> THEN <<>>
    ELSE IF Len(items) = 1 THEN <<[items[1] EXCEPT !.suf = TRUE]>>
    ELSE <<[items[1] EXCEPT !.suf = FALSE]>> \o Spaced(Tail(items))

Inline(table, name, items) == Line(table, name, "inline", Spaced(items))
Dotted(table, name) == Line(table, name, "dotted", <<WsItem(FALSE)>>)
Simple(table, name) == Line(table, name, "simple", <<>>)

File(ok, workspace, lines) == [ok |-> ok, workspace |-> workspace, lines |-> lines]
Malformed == File(FALSE, FALSE, <<>>)

HasKey(items, key) == \E i \in DOMAIN items : items[i].key = key
GetItem(items, key) == items[CHOOSE i \in DOMAIN items : items[i].key = key]

-----------------------------------------------------------------------------
(* cargo_toml::Manifest::from_str, as main reads it *)

DepOf(line) ==
    IF line.form = "simple"
    THEN [kind |-> "Simple", workspace |-> FALSE, features |-> <<>>]
    ELSE [kind |-> IF HasKey(line.items, "workspace") THEN "Inherited" ELSE "Detailed",
          workspace |-> HasKey(line.items, "workspace")
                        /\ GetItem(line.items, "workspace").flag,
          features |-> IF HasKey(line.items, "features")
                       THEN GetItem(line.items, "features").feats ELSE <<>>]

LineIdx(doc, table, name) ==
    CHOOSE i \in DOMAIN doc : doc[i].table = table /\ doc[i].name = name

TableOf(lines, table) ==
    [n \in {lines[i].name : i \in {j \in DOMAIN lines : lines[j].table = table}}
        |-> DepOf(lines[LineIdx(lines, table, n)])]

Manifest_from_str(toml) ==
    [workspace |-> toml.workspace,
     ws_dependencies |-> TableOf(toml.lines, "workspace.dependencies"),
     dependencies |-> TableOf(toml.lines, "dependencies"),
     dev_dependencies |-> TableOf(toml.lines, "dev-dependencies"),
     build_dependencies |-> TableOf(toml.lines, "build-dependencies")]

NoManifest == Manifest_from_str(File(TRUE, FALSE, <<>>))

\* root.workspace.iter().flat_map(|w| w.dependencies...): the shared names
\* in BTreeMap order, none without a [workspace] section.
workspace_dependency_names(root) ==
    IF root.workspace
    THEN SelectSeq(NameOrder, LAMBDA n : n \in DOMAIN root.ws_dependencies)
    ELSE <<>>

req_features(dep) == dep.features


-----------------------------------------------------------------------------
(* toml_edit editing primitives used by the lint functions *)

\* Item::as_table_like_mut: an inline table or a dotted table, not a string.
as_table_like(line) == line.form \in {"inline", "dotted"}

\* TableLike::remove(key): the item goes with its decor.
RemoveItem(items, key) == SelectSeq(items, LAMBDA it : it.key # key)

\* Array::remove(idx)
RemoveAt(s, idx) == SubSeq(s, 1, idx - 1) \o SubSeq(s, idx + 1, Len(s))

Warning(kind, item_name, dep_name, feats) ==
    [kind |-> kind, item |-> item_name, name |-> dep_name, feats |-> feats]

-----------------------------------------------------------------------------
(* workspace_dependency_with_default_features_set, main.rs:179-201 *)

default_features_keeps_key(dep_name, doc, table, item_name) ==
    LET i == LineIdx(doc, table, dep_name)
        items == doc[i].items
        fixes == HasKey(items, "default-features") \/ HasKey(items, "default_features")
    IN  [doc |-> doc,
         fixes |-> as_table_like(doc[i]) /\ fixes,
         out |-> IF as_table_like(doc[i]) /\ fixes
                 THEN <<Warning("default-features", item_name, dep_name, <<>>)>>
                 ELSE <<>>]

\* `a.remove(..).is_some() || b.remove(..).is_some()` short-circuits: the
\* second key is removed only when the first was absent.
workspace_dependency_with_default_features_set(dep_name, doc, table, item_name) ==
    LET i == LineIdx(doc, table, dep_name)
        items == doc[i].items
        first == HasKey(items, "default-features")
        items1 == RemoveItem(items, "default-features")
        second == HasKey(items1, "default_features")
        items2 == IF first THEN items1 ELSE RemoveItem(items1, "default_features")
        fixes == first \/ second
    IN  IF as_table_like(doc[i])
        THEN [doc |-> [doc EXCEPT ![i].items = items2],
              fixes |-> fixes,
              out |-> IF fixes
                      THEN <<Warning("default-features", item_name, dep_name, <<>>)>>
                      ELSE <<>>]
        ELSE [doc |-> doc, fixes |-> FALSE, out |-> <<>>]

-----------------------------------------------------------------------------
(* dependency_with_redundant_workspace_features, main.rs:204-252 *)

redundant_features_inverted(dep, ws_dep) ==
    SelectSeq(dep.features, LAMBDA f : f \notin Range(req_features(ws_dep)))

\* dep.features.iter().filter(|f| ws_dep.req_features().contains(f)).collect()
redundant_features(dep, ws_dep) ==
    SelectSeq(dep.features, LAMBDA f : f \in Range(req_features(ws_dep)))

\* feats.iter().enumerate().filter(..).map(|(idx, _)| idx).collect()
rm_idx(feats, redundant) ==
    SelectSeq([i \in 1..Len(feats) |-> i], LAMBDA i : feats[i] \in Range(redundant))

\* for idx in rm_idx.into_iter().rev() { feats.remove(idx); }
RECURSIVE remove_rev(_, _)
remove_rev(feats, idxs) ==
    IF idxs = <<>> THEN feats
    ELSE remove_rev(RemoveAt(feats, idxs[Len(idxs)]), SubSeq(idxs, 1, Len(idxs) - 1))

redundant_features_keeps_empty(dep_name, ws_dep, dep, doc, table, item_name) ==
    LET redundant == redundant_features(dep, ws_dep)
        i == LineIdx(doc, table, dep_name)
        items == doc[i].items
        feats == GetItem(items, "features").feats
        left == remove_rev(feats, rm_idx(feats, redundant))
        items1 == [j \in DOMAIN items |->
                     IF items[j].key = "features"
                     THEN [items[j] EXCEPT !.feats = left] ELSE items[j]]
    IN  IF redundant # <<>>
        THEN [doc |-> [doc EXCEPT ![i].items = items1],
              fixes |-> TRUE,
              out |-> <<Warning("features", item_name, dep_name, redundant)>>]
        ELSE [doc |-> doc, fixes |-> FALSE, out |-> <<>>]

dependency_with_redundant_workspace_features(dep_name, ws_dep, dep, doc, table, item_name) ==
    LET redundant == redundant_features(dep, ws_dep)
        i == LineIdx(doc, table, dep_name)
        items == doc[i].items
        \* doc_deps[dep_name]["features"].as_array_mut().unwrap()
        feats == GetItem(items, "features").feats
        left == remove_rev(feats, rm_idx(feats, redundant))
        items1 == IF left = <<>>
                  THEN RemoveItem(items, "features")
                  ELSE [j \in DOMAIN items |->
                          IF items[j].key = "features"
                          THEN [items[j] EXCEPT !.feats = left] ELSE items[j]]
    IN  IF redundant # <<>>
        THEN [doc |-> [doc EXCEPT ![i].items = items1],
              fixes |-> TRUE,
              out |-> <<Warning("features", item_name, dep_name, redundant)>>]
        ELSE [doc |-> doc, fixes |-> FALSE, out |-> <<>>]

-----------------------------------------------------------------------------
(* lint_manifest, main.rs:136-176 *)

IsInherited(tbl, name) ==
    name \in DOMAIN tbl /\ tbl[name].kind = "Inherited" /\ tbl[name].workspace

\* One `if let Some(Inherited(dep)) = table.get(name) { if dep.workspace {..} }`
\* block: both checks run, in this order, on the same table of the document.
lint_table(st, name, ws_dep, tbl, table, item_name) ==
    IF IsInherited(tbl, name)
    THEN LET r1 == dependency_with_redundant_workspace_features(
                       name, ws_dep, tbl[name], st.doc, table, item_name)
             r2 == workspace_dependency_with_default_features_set(
                       name, r1.doc, table, item_name)
         IN  [doc |-> r2.doc,
              has_fixes |-> st.has_fixes \/ r1.fixes \/ r2.fixes,
              out |-> st.out \o r1.out \o r2.out]
    ELSE st

RECURSIVE lint_loop(_, _, _, _)
lint_loop(st, names, root, member) ==
    IF names = <<>> THEN st
    ELSE LET name == Head(names)
             ws_dep == root.ws_dependencies[name]
             s1 == lint_table(st, name, ws_dep, member.dependencies,
                              "dependencies", "dependency")
             s2 == lint_table(s1, name, ws_dep, member.dev_dependencies,
                              "dev-dependencies", "dev-dependency")
         IN  lint_loop(s2, Tail(names), root, member)

lint_manifest(root, member, doc) ==
    lint_loop([doc |-> doc, has_fixes |-> FALSE, out |-> <<>>],
              workspace_dependency_names(root), root, member)

-----------------------------------------------------------------------------
(* unused_workspace_deps, main.rs:121-134 *)

unused_ignores_build(root, members) ==
    SelectSeq(workspace_dependency_names(root),
              LAMBDA dep : ~ \E m \in DOMAIN members :
                                \/ dep \in DOMAIN members[m].dependencies
                                \/ dep \in DOMAIN members[m].dev_dependencies)

unused_workspace_deps(root, members) ==
    SelectSeq(workspace_dependency_names(root),
              LAMBDA dep : ~ \E m \in DOMAIN members :
                                \/ dep \in DOMAIN members[m].dependencies
                                \/ dep \in DOMAIN members[m].dev_dependencies
                                \/ dep \in DOMAIN members[m].build_dependencies)

-----------------------------------------------------------------------------
(* Serialisation and diff, main.rs:52-62 and 93-100 *)

\* .replace("workspace = true}", "workspace = true }")
replace_brace(line) ==
    IF /\ line.form = "inline"
       /\ line.items # <<>>
       /\ line.items[Len(line.items)].key = "workspace"
       /\ line.items[Len(line.items)].flag
       /\ ~line.items[Len(line.items)].suf
    THEN [line EXCEPT !.items[Len(line.items)].suf = TRUE]
    ELSE line

\* .replace(" = { workspace = true }", ".workspace = true")
replace_dotted(line) ==
    IF line.form = "inline" /\ line.items = <<WsItem(TRUE)>>
    THEN [line EXCEPT !.form = "dotted", !.items = <<WsItem(FALSE)>>]
    ELSE line

\* member_doc.to_string().replace(..).replace(..): both replacements run
\* over the whole text, so over every line of it.
fixed_toml_of(doc) ==
    [i \in DOMAIN doc |-> replace_dotted(replace_brace(doc[i]))]

DiffLine(file, side, line) == [file |-> file, side |-> side, line |-> line]

\* diff::lines(old, new), keeping the Left and Right results: a longest
\* common subsequence diff.
RECURSIVE diff_lines(_, _, _)
diff_lines(file, old, new) ==
    IF old = <<>> THEN [i \in DOMAIN new |-> DiffLine(file, "+", new[i])]
    ELSE IF new = <<>> THEN [i \in DOMAIN old |-> DiffLine(file, "-", old[i])]
    ELSE IF Head(old) = Head(new) THEN diff_lines(file, Tail(old), Tail(new))
    ELSE LET l == <<DiffLine(file, "-", Head(old))>> \o diff_lines(file, Tail(old), new)
             r == <<DiffLine(file, "+", Head(new))>> \o diff_lines(file, old, Tail(new))
         IN  IF Len(l) <= Len(r) THEN l ELSE r

-----------------------------------------------------------------------------
(* The inputs: the command line and the files of the workspace *)

FeatSeqs(n) == UNION {[1..m -> Features] : m \in 0..n}

Args(fix, dry_run, help) == [fix |-> fix, dry_run |-> dry_run, help |-> help]

RootLine(name, fs) ==
    IF fs = <<>> THEN Simple("workspace.dependencies", name)
    ELSE Inline("workspace.dependencies", name, <<VersionItem(FALSE), FeaturesItem(fs, FALSE)>>)

\* Workspaces for the whole-run claims.
RootFiles ==
    { File(TRUE, TRUE, <<RootLine("foo", <<"a", "b">>), RootLine("bar", <<>>)>>),
      File(TRUE, TRUE, <<RootLine("foo", <<"a", "b">>)>>),
      File(TRUE, FALSE, <<>>),
      Malformed }

MemberFiles ==
    { File(TRUE, FALSE, <<Dotted("dependencies", "foo")>>),
      File(TRUE, FALSE,
           <<Inline("dependencies", "foo",
                    <<WsItem(FALSE), FeaturesItem(<<"a", "c">>, FALSE)>>),
             Inline("dependencies", "bar", <<WsItem(FALSE)>>)>>),
      File(TRUE, FALSE,
           <<Inline("dev-dependencies", "foo",
                    <<WsItem(FALSE), DfItem("default-features", FALSE)>>)>>),
      File(TRUE, FALSE, <<Simple("build-dependencies", "bar")>>),
      File(TRUE, FALSE,
           <<Inline("dependencies", "foo",
                    <<VersionItem(FALSE), FeaturesItem(<<"a">>, FALSE)>>)>>),
      Malformed }

\* One package with every inherited entry the bounds allow, for the claims
\* about the lint and fix of one document.
LintRootFiles ==
    { File(TRUE, TRUE, <<RootLine("foo", <<"a", "b">>), RootLine("bar", <<>>)>>),
      File(TRUE, TRUE, <<RootLine("foo", <<"c">>)>>),
      File(TRUE, TRUE, <<RootLine("foo", <<>>)>>) }

InheritedItems(fs, df, df_) ==
    <<WsItem(FALSE)>>
    \o (IF fs # <<>> THEN <<FeaturesItem(fs, FALSE)>> ELSE <<>>)
    \o (IF df THEN <<DfItem("default-features", FALSE)>> ELSE <<>>)
    \o (IF df_ THEN <<DfItem("default_features", FALSE)>> ELSE <<>>)

OtherLines ==
    { <<>>,
      <<Inline("dependencies", "bar", <<WsItem(FALSE)>>)>>,
      <<Dotted("dependencies", "bar")>>,
      <<Simple("build-dependencies", "bar")>>,
      <<Inline("dev-dependencies", "foo",
               <<FeaturesItem(<<"a">>, FALSE), WsItem(FALSE)>>)>>,
      <<Inline("dev-dependencies", "foo",
               <<WsItem(FALSE), DfItem("default_features", FALSE)>>)>> }

LintMemberFiles ==
    { File(TRUE, FALSE,
           <<Inline("dependencies", "foo", InheritedItems(fs, df, df_))>> \o other) :
        fs \in FeatSeqs(MaxFeatures), df \in BOOLEAN, df_ \in BOOLEAN,
        other \in OtherLines }

-----------------------------------------------------------------------------
(* main, main.rs:8-119 *)

VARIABLES
    args,              \* the flags --fix, --dry-run, --help
    rootDisk,          \* the root Cargo.toml on disk
    memberDisk,        \* the members' Cargo.toml on disk, in workspace order
    pc,                \* "start", "members", "finish", "done", "error"
    k,                 \* the member the loop is at
    root_manifest, root_doc, root_toml_str,
    member_manifests,
    toml_str, member_doc, has_fixes,   \* of the member linted last
    something_to_fix,
    progress,          \* "==> Checking" lines: member indices, 0 for the root
    warnings,          \* the yellow finding lines
    diffs,             \* the red and green diff lines
    final,             \* "hint", "allgood" or "" (neither printed)
    exit_code,         \* <<>> while running, then <<status>>
    rootDisk0, memberDisk0,   \* the files as the run found them
    failed_member      \* the member whose read, parse or write failed, or 0

vars == <<args, rootDisk, memberDisk, pc, k, root_manifest, root_doc,
          root_toml_str, member_manifests, toml_str, member_doc, has_fixes,
          something_to_fix, progress, warnings, diffs, final, exit_code,
          rootDisk0, memberDisk0, failed_member>>

InitState ==
    /\ pc = "start"
    /\ k = 1
    /\ root_manifest = NoManifest
    /\ root_doc = <<>>
    /\ root_toml_str = <<>>
    /\ member_manifests = <<>>
    /\ toml_str = <<>>
    /\ member_doc = <<>>
    /\ has_fixes = FALSE
    /\ something_to_fix = FALSE
    /\ progress = <<>>
    /\ warnings = <<>>
    /\ diffs = <<>>
    /\ final = ""
    /\ exit_code = <<>>
    /\ rootDisk0 = rootDisk
    /\ memberDisk0 = memberDisk
    /\ failed_member = 0

Init ==
    /\ args \in [fix : BOOLEAN, dry_run : BOOLEAN, help : BOOLEAN]
    /\ rootDisk \in RootFiles
    /\ memberDisk \in UNION {[1..n -> MemberFiles] : n \in 1..MaxMembers}
    /\ InitState

InitLint ==
    /\ args \in {Args(f, d, FALSE) : f \in BOOLEAN, d \in BOOLEAN}
                \cup {Args(FALSE, FALSE, TRUE)}
    /\ rootDisk \in LintRootFiles
    /\ memberDisk \in [1..1 -> LintMemberFiles]
    /\ InitState

Tag(pkg, out) ==
    [i \in DOMAIN out |->
        [pkg |-> pkg, kind |-> out[i].kind, item |-> out[i].item,
         name |-> out[i].name, feats |-> out[i].feats]]

\* if env::args().any(|a| a == "--help" || a == "-h") { ...; return Ok(()) }
Help ==
    /\ pc = "start"
    /\ args.help
    /\ pc' = "done"
    /\ exit_code' = <<0>>
    /\ UNCHANGED <<args, rootDisk, memberDisk, k, root_manifest, root_doc,
                   root_toml_str, member_manifests, toml_str, member_doc,
                   has_fixes, something_to_fix, progress, warnings, diffs,
                   final, rootDisk0, memberDisk0, failed_member>>

\* Lines 17-31: cargo metadata, then the root file read and parsed twice.
LoadRoot ==
    /\ pc = "start"
    /\ ~args.help
    /\ rootDisk.ok
    /\ root_manifest' = Manifest_from_str(rootDisk)
    /\ root_doc' = rootDisk.lines
    /\ root_toml_str' = rootDisk.lines
    /\ pc' = "members"
    /\ UNCHANGED <<args, rootDisk, memberDisk, k, member_manifests, toml_str,
                   member_doc, has_fixes, something_to_fix, progress, warnings,
                   diffs, final, exit_code, rootDisk0, memberDisk0, failed_member>>

\* `?` on cargo metadata, on the read or on a parse: main returns the error.
LoadRootFail ==
    /\ pc = "start"
    /\ ~args.help
    /\ pc' = "error"
    /\ exit_code' = <<1>>
    /\ UNCHANGED <<args, rootDisk, memberDisk, k, root_manifest, root_doc,
                   root_toml_str, member_manifests, toml_str, member_doc,
                   has_fixes, something_to_fix, progress, warnings, diffs,
                   final, rootDisk0, memberDisk0, failed_member>>

member_write_ignores_dry_run(fix, fixes, dry_run) == fix /\ fixes

\* if fix && has_fixes { ...; if !dry_run { fs::write(..)? } }
member_write(fix, fixes, dry_run) == fix /\ fixes /\ ~dry_run

\* What one iteration of the loop computes from the member's file.
member_lint(toml) ==
    LET member_manifest == Manifest_from_str(toml)
        r == lint_manifest(root_manifest, member_manifest, toml.lines)
    IN  [manifest |-> member_manifest,
         doc |-> r.doc,
         has_fixes |-> r.has_fixes,
         out |-> r.out,
         fixed_toml |-> fixed_toml_of(r.doc)]

\* The loop body up to the write, lines 37-62.
MemberLinted(m) ==
    /\ progress' = Append(progress, k)
    /\ member_manifests' = Append(member_manifests, m.manifest)
    /\ toml_str' = memberDisk[k].lines
    /\ member_doc' = m.doc
    /\ has_fixes' = m.has_fixes
    /\ warnings' = warnings \o Tag(k, m.out)
    /\ diffs' = IF args.fix /\ m.has_fixes
                THEN diffs \o diff_lines(k, memberDisk[k].lines, m.fixed_toml)
                ELSE diffs

CheckMember ==
    /\ pc = "members"
    /\ k <= Len(memberDisk)
    /\ memberDisk[k].ok
    /\ LET m == member_lint(memberDisk[k])
       IN  /\ MemberLinted(m)
           /\ memberDisk' =
                IF member_write(args.fix, m.has_fixes, args.dry_run)
                THEN [memberDisk EXCEPT ![k] = File(TRUE, memberDisk[k].workspace, m.fixed_toml)]
                ELSE memberDisk
           /\ something_to_fix' = (something_to_fix \/ m.has_fixes)
    /\ k' = k + 1
    /\ UNCHANGED <<args, rootDisk, pc, root_manifest, root_doc, root_toml_str,
                   final, exit_code, rootDisk0, memberDisk0, failed_member>>

CheckMemberLoadFail_skips ==
    /\ pc = "members"
    /\ k <= Len(memberDisk)
    /\ progress' = Append(progress, k)
    /\ failed_member' = k
    /\ k' = k + 1
    /\ UNCHANGED <<args, rootDisk, memberDisk, pc, root_manifest, root_doc,
                   root_toml_str, member_manifests, toml_str, member_doc,
                   has_fixes, something_to_fix, warnings, diffs, final,
                   exit_code, rootDisk0, memberDisk0>>

\* fs::read_to_string(&member_path)? or one of the two parses fails, after
\* the progress line.
CheckMemberLoadFail ==
    /\ pc = "members"
    /\ k <= Len(memberDisk)
    /\ progress' = Append(progress, k)
    /\ failed_member' = k
    /\ pc' = "error"
    /\ exit_code' = <<1>>
    /\ UNCHANGED <<args, rootDisk, memberDisk, k, root_manifest, root_doc,
                   root_toml_str, member_manifests, toml_str, member_doc,
                   has_fixes, something_to_fix, warnings, diffs, final,
                   rootDisk0, memberDisk0>>

\* fs::write(&member_path, fixed_toml)? fails: the file is as it was, or
\* was truncated by the open.
CheckMemberWriteFail ==
    /\ pc = "members"
    /\ k <= Len(memberDisk)
    /\ memberDisk[k].ok
    /\ LET m == member_lint(memberDisk[k])
       IN  /\ member_write(args.fix, m.has_fixes, args.dry_run)
           /\ MemberLinted(m)
    /\ \E after \in {memberDisk[k], Malformed} :
          memberDisk' = [memberDisk EXCEPT ![k] = after]
    /\ failed_member' = k
    /\ pc' = "error"
    /\ exit_code' = <<1>>
    /\ UNCHANGED <<args, rootDisk, k, root_manifest, root_doc, root_toml_str,
                   something_to_fix, final, rootDisk0, memberDisk0>>

root_write(fix, dry_run) == fix /\ ~dry_run

\* deps.remove(dep) for every unused dep, then root_doc.to_string()
root_fixed(doc, unused) ==
    SelectSeq(doc, LAMBDA l : ~(l.table = "workspace.dependencies"
                                /\ l.name \in Range(unused)))

UnusedWarnings(unused) ==
    [i \in DOMAIN unused |->
        [pkg |-> 0, kind |-> "unused", item |-> "", name |-> unused[i], feats |-> <<>>]]

\* Lines 70-100, up to the write of the root file.
RootChecked(unused) ==
    /\ progress' = IF root_manifest.workspace THEN Append(progress, 0) ELSE progress
    /\ warnings' = warnings \o UnusedWarnings(unused)
    /\ root_doc' = IF unused # <<>> /\ args.fix THEN root_fixed(root_doc, unused)
                   ELSE root_doc
    /\ diffs' = IF unused # <<>> /\ args.fix
                THEN diffs \o diff_lines(0, root_toml_str, root_fixed(root_doc, unused))
                ELSE diffs

CheckWorkspace ==
    /\ pc = "members"
    /\ k > Len(memberDisk)
    /\ LET unused == unused_workspace_deps(root_manifest, member_manifests)
       IN  /\ RootChecked(unused)
           /\ something_to_fix' = (something_to_fix \/ unused # <<>>)
           /\ rootDisk' =
                IF unused # <<>> /\ root_write(args.fix, args.dry_run)
                THEN File(TRUE, rootDisk.workspace, root_fixed(root_doc, unused))
                ELSE rootDisk
    /\ pc' = "finish"
    /\ UNCHANGED <<args, memberDisk, k, root_manifest, root_toml_str,
                   member_manifests, toml_str, member_doc, has_fixes, final,
                   exit_code, rootDisk0, memberDisk0, failed_member>>

\* fs::write(&root_toml, fixed_toml)? fails.
CheckWorkspaceWriteFail ==
    /\ pc = "members"
    /\ k > Len(memberDisk)
    /\ LET unused == unused_workspace_deps(root_manifest, member_manifests)
       IN  /\ unused # <<>>
           /\ root_write(args.fix, args.dry_run)
           /\ RootChecked(unused)
    /\ something_to_fix' = TRUE
    /\ rootDisk' \in {rootDisk, Malformed}
    /\ pc' = "error"
    /\ exit_code' = <<1>>
    /\ UNCHANGED <<args, memberDisk, k, root_manifest, root_toml_str,
                   member_manifests, toml_str, member_doc, has_fixes, final,
                   rootDisk0, memberDisk0, failed_member>>

hint_whenever_findings(fix, stf) == stf

\* if !fix && something_to_fix { hint; exit(1) } else "All good", Ok(())
prints_hint(fix, stf) == ~fix /\ stf

Finish ==
    /\ pc = "finish"
    /\ final' = IF prints_hint(args.fix, something_to_fix) THEN "hint" ELSE "allgood"
    /\ exit_code' = IF prints_hint(args.fix, something_to_fix) THEN <<1>> ELSE <<0>>
    /\ pc' = "done"
    /\ UNCHANGED <<args, rootDisk, memberDisk, k, root_manifest, root_doc,
                   root_toml_str, member_manifests, toml_str, member_doc,
                   has_fixes, something_to_fix, progress, warnings, diffs,
                   rootDisk0, memberDisk0, failed_member>>

Next ==
    \/ Help
    \/ LoadRoot
    \/ LoadRootFail
    \/ CheckMember
    \/ CheckMemberLoadFail
    \/ CheckMemberWriteFail
    \/ CheckWorkspace
    \/ CheckWorkspaceWriteFail
    \/ Finish

Spec == Init /\ [][Next]_vars

SpecLint == InitLint /\ [][Next]_vars

-----------------------------------------------------------------------------
(* What the specification calls a finding, read off the files themselves *)

LintedTables == {"dependencies", "dev-dependencies"}
UsingTables == {"dependencies", "dev-dependencies", "build-dependencies"}

SharedLines(rootf) ==
    IF rootf.ok /\ rootf.workspace
    THEN {l \in Range(rootf.lines) : l.table = "workspace.dependencies"}
    ELSE {}
SharedNames(rootf) == {l.name : l \in SharedLines(rootf)}
LineFeatures(line) ==
    IF HasKey(line.items, "features") THEN Range(GetItem(line.items, "features").feats)
    ELSE {}
SharedFeatures(rootf, name) ==
    UNION {LineFeatures(l) : l \in {x \in SharedLines(rootf) : x.name = name}}

IsInheritedEntry(rootf, line) ==
    /\ line.table \in LintedTables
    /\ line.name \in SharedNames(rootf)
    /\ line.form # "simple"
    /\ HasKey(line.items, "workspace")

HasRedundantFeatures(rootf, line) ==
    /\ IsInheritedEntry(rootf, line)
    /\ LineFeatures(line) \cap SharedFeatures(rootf, line.name) # {}

HasRedundantDefaultFeatures(rootf, line) ==
    /\ IsInheritedEntry(rootf, line)
    /\ (HasKey(line.items, "default-features") \/ HasKey(line.items, "default_features"))

HasFinding(rootf, line) ==
    HasRedundantFeatures(rootf, line) \/ HasRedundantDefaultFeatures(rootf, line)

PackageFindings(rootf, members) ==
    \E i \in DOMAIN members :
        members[i].ok /\ \E l \in Range(members[i].lines) : HasFinding(rootf, l)

UnusedShared(rootf, members) ==
    {n \in SharedNames(rootf) :
        \A i \in DOMAIN members : \A l \in Range(members[i].lines) :
            ~(l.name = n /\ l.table \in UsingTables)}

FindingsExist(rootf, members) ==
    PackageFindings(rootf, members) \/ UnusedShared(rootf, members) # {}

Linted == Len(member_manifests) >= 1
LastLinted == Len(member_manifests)

-----------------------------------------------------------------------------
(* The claims *)

\* C1: a configuration file is rewritten only under --fix without --dry-run:
\* in a run without --fix, or with --dry-run, the root file and every member
\* file stay as the run found them.
C1_WritesOnlyWhenFixAndNotDryRun ==
    (~args.fix \/ args.dry_run) =>
        (rootDisk = rootDisk0 /\ memberDisk = memberDisk0)

\* A --fix --dry-run run that printed a diff and ended.
C1_Witness ==
    /\ pc = "done" /\ args.fix /\ args.dry_run
    /\ diffs # <<>>
    /\ PackageFindings(rootDisk0, memberDisk0)

\* C2: a run that ends without failure exits with 1 iff a finding was
\* reported and --fix was not passed, and with 0 otherwise; the findings
\* reported by a linting run are those the files hold; without a finding no
\* diff line is printed.
C2_ExitCode ==
    pc = "done" =>
        /\ exit_code = (IF warnings # <<>> /\ ~args.fix THEN <<1>> ELSE <<0>>)
        /\ ~args.help => (warnings # <<>> <=> FindingsExist(rootDisk0, memberDisk0))
        /\ warnings = <<>> => diffs = <<>>

\* A run without --fix over a workspace whose only finding is in the second
\* package exits with 1.
C2_Witness ==
    /\ pc = "done" /\ exit_code = <<1>> /\ ~args.fix
    /\ Len(memberDisk0) >= 2
    /\ UnusedShared(rootDisk0, memberDisk0) = {}
    /\ ~PackageFindings(rootDisk0, SubSeq(memberDisk0, 1, 1))

\* r holds the elements of f that are in s, in f's order, and nothing else.
IsOrderedIntersection(r, f, s) ==
    LET idx == {i \in DOMAIN f : f[i] \in s}
    IN  /\ Len(r) = Cardinality(idx)
        /\ \A j \in DOMAIN r :
              \E i \in idx : r[j] = f[i] /\ Cardinality({h \in idx : h < i}) = j - 1

ReportedFeatures(pkg, line) ==
    LET ws == {i \in DOMAIN warnings :
                 /\ warnings[i].pkg = pkg /\ warnings[i].kind = "features"
                 /\ warnings[i].name = line.name
                 /\ warnings[i].item = (IF line.table = "dependencies"
                                        THEN "dependency" ELSE "dev-dependency")}
    IN  IF ws = {} THEN <<>> ELSE warnings[CHOOSE i \in ws : TRUE].feats

\* C3: for every inherited entry with feature list F of a shared dependency
\* with required features S, the redundant features reported are exactly the
\* features of F that are in S, in F's order.
C3_RedundantFeaturesAreIntersection ==
    Linted =>
        \A j \in DOMAIN toml_str :
            IsInheritedEntry(rootDisk0, toml_str[j]) =>
                IsOrderedIntersection(
                    ReportedFeatures(LastLinted, toml_str[j]),
                    DepOf(toml_str[j]).features,
                    SharedFeatures(rootDisk0, toml_str[j].name))

\* ["c","a"] against the shared ["a","b"] reported ["a"].
C3_Witness ==
    /\ Linted
    /\ \E j \in DOMAIN toml_str :
          /\ IsInheritedEntry(rootDisk0, toml_str[j])
          /\ DepOf(toml_str[j]).features = <<"c", "a">>
          /\ SharedFeatures(rootDisk0, toml_str[j].name) = {"a", "b"}
          /\ ReportedFeatures(LastLinted, toml_str[j]) = <<"a">>

RootPassRan == pc = "finish" \/ (pc = "done" /\ ~args.help)

ReportedUnused == {warnings[i].name : i \in {j \in DOMAIN warnings : warnings[j].kind = "unused"}}

\* C4: after the root pass, a shared dependency is reported unused iff no
\* member's normal, dev or build table has its name as a key, inherited or not.
C4_UnusedIffNoMemberKey ==
    RootPassRan =>
        \A n \in Names :
            n \in ReportedUnused <=> n \in UnusedShared(rootDisk0, memberDisk0)

\* foo is reported unused while bar, used only by a fully specified build
\* dependency, is not.
C4_Witness ==
    /\ RootPassRan
    /\ ReportedUnused = {"foo"}
    /\ "bar" \in SharedNames(rootDisk0)
    /\ \A i \in DOMAIN memberDisk0 : \A l \in Range(memberDisk0[i].lines) :
          l.name = "bar" => (l.table = "build-dependencies" /\ l.form = "simple")

\* The lint and fix of one file as it is on disk now: what a second run with
\* --fix finds and prints.
Relint(file) ==
    LET r == lint_manifest(root_manifest, Manifest_from_str(file), file.lines)
    IN  [has_fixes |-> r.has_fixes,
         out |-> r.out,
         diff |-> IF r.has_fixes
                  THEN diff_lines(1, file.lines, fixed_toml_of(r.doc)) ELSE <<>>]

\* C5: the fix pass is idempotent: after a run with --fix that wrote its
\* fixes, linting and fixing each package file again finds nothing and
\* changes no line.
C5_FixIsIdempotent ==
    (pc = "done" /\ args.fix /\ ~args.dry_run) =>
        \A i \in DOMAIN memberDisk :
            /\ ~Relint(memberDisk[i]).has_fixes
            /\ Relint(memberDisk[i]).out = <<>>
            /\ Relint(memberDisk[i]).diff = <<>>

\* The same, for the entries that set the flag under at most one spelling.
C5_IdempotentWithOneSpelling ==
    (pc = "done" /\ args.fix /\ ~args.dry_run) =>
        \A i \in DOMAIN memberDisk :
            (\A l \in Range(memberDisk0[i].lines) :
                ~(HasKey(l.items, "default-features") /\ HasKey(l.items, "default_features")))
            => /\ ~Relint(memberDisk[i]).has_fixes
               /\ Relint(memberDisk[i]).diff = <<>>

\* C6: at the end of a linting run the green confirmation line is printed
\* only when the files on disk hold no finding, and the hint line whenever
\* they hold one.
C6_FinalLineMatchesDisk ==
    (pc = "done" /\ ~args.help) =>
        /\ final = "allgood" => ~FindingsExist(rootDisk, memberDisk)
        /\ FindingsExist(rootDisk, memberDisk) => final = "hint"

\* The same, for the runs that are not --fix --dry-run.
C6_FinalLineWithoutDryRun ==
    (pc = "done" /\ ~args.help /\ ~(args.fix /\ args.dry_run)) =>
        /\ final = "allgood" => ~FindingsExist(rootDisk, memberDisk)
        /\ FindingsExist(rootDisk, memberDisk) => final = "hint"

Keys(line) == {line.items[i].key : i \in DOMAIN line.items}
RedundantKeys == {"features", "default-features", "default_features"}

\* C7: a package file that was rewritten differs from the original only in
\* the redundant keys of the entries with a finding; every entry without a
\* finding is rendered as it was.
C7_FixTouchesOnlyFindings ==
    \A i \in DOMAIN memberDisk :
        (memberDisk[i].ok /\ memberDisk0[i].ok) =>
            /\ Len(memberDisk[i].lines) = Len(memberDisk0[i].lines)
            /\ \A j \in DOMAIN memberDisk0[i].lines :
                  LET old == memberDisk0[i].lines[j]
                      new == memberDisk[i].lines[j]
                  IN  /\ new.name = old.name /\ new.table = old.table
                      /\ Keys(old) \ RedundantKeys \subseteq Keys(new)
                      /\ Keys(new) \subseteq Keys(old)
                      /\ ~HasFinding(rootDisk0, old) => new = old

Persisted(i) ==
    LET m == member_lint(memberDisk0[i])
    IN  IF args.fix /\ ~args.dry_run /\ m.has_fixes
        THEN File(TRUE, memberDisk0[i].workspace, m.fixed_toml)
        ELSE memberDisk0[i]

\* C10: when the read, parse or write of the k-th package fails the run is
\* in its error state: no later package was announced, linted or written,
\* the root pass did not run and the root file is as found, and the files of
\* the packages before the k-th are as their iterations left them.
C10_FailFast ==
    failed_member # 0 =>
        /\ pc = "error" /\ exit_code = <<1>> /\ final = ""
        /\ k = failed_member
        /\ \A i \in DOMAIN progress : progress[i] \in 1..failed_member
        /\ Len(member_manifests) <= failed_member
        /\ \A i \in DOMAIN warnings : warnings[i].pkg \in 1..failed_member
        /\ \A i \in DOMAIN diffs : diffs[i].file \in 1..failed_member
        /\ ReportedUnused = {}
        /\ rootDisk = rootDisk0
        /\ \A i \in DOMAIN memberDisk :
              /\ i > failed_member => memberDisk[i] = memberDisk0[i]
              /\ i < failed_member => memberDisk[i] = Persisted(i)

\* The second package failed after the first had been fixed on disk, with a
\* package left unvisited.
C10_Witness ==
    /\ pc = "error" /\ failed_member = 2
    /\ memberDisk[1] # memberDisk0[1]

=============================================================================
